---- MODULE Spec2Model ----
(***************************************************************************)
(* Model of the client-side utilities of the Jaguar Flux API client        *)
(* (src/node-examples/JaguarFluxAPI.js): RequestQueue, a bounded           *)
(* concurrency queue of asynchronous operations, ImageCache, a time/size   *)
(* bounded cache, option validation, and makeRequest, the retrying HTTP    *)
(* request; and of the generateImage callback of the React hook and        *)
(* component (src/unnamed/part_000, src/jaguar-api-types.ts).              *)
(*                                                                         *)
(* JavaScript runs one job at a time.  Each action below is one job: a     *)
(* call made by the application (add, process, set, get), the settlement   *)
(* of an operation's promise, or the continuation of process() after its   *)
(* await.  Everything a job does synchronously, nested calls included, is  *)
(* part of its action.                                                     *)
(***************************************************************************)
EXTENDS Integers, Sequences, FiniteSets

\* ------------------------------------------------------------------ bounds
NumOps == 4
MaxConcurrentBound == 2
NumKeys == 3
MaxSets == 4
MaxTime == 2
MaxReads == 1
MaxFields == 2
MaxRetries == 3
NumCalls == 3

Ops == 1..NumOps

VARIABLES
    \* RequestQueue fields
    maxConcurrent,  \* this.maxConcurrent
    running,        \* this.running
    queue,          \* this.queue: the entries, each named by its operation
    \* the operations handed to add() and the promises add() returned
    st,             \* st[o]: where operation o is in its life
    outcome,        \* outcome[o]: how requestFunction o ended
    promise,        \* promise[o]: the promise add(o) returned
    settleCalls,    \* settleCalls[o]: calls of o's resolve/reject so far
    \* history of the run
    addedBy,        \* addedBy[o]: the operation whose requestFunction called
                    \* add(o) while being invoked, 0 for the application
    addOrder,       \* operations in the order add() was called
    startOrder,     \* operations in the order requestFunction was invoked
    peak,           \* largest value this.running took during the last job
    freed,          \* the finally blocks run by the last job, in order
    \* ImageCache: constructor argument and fields
    options,        \* the options object given to the constructor
    maxSize,        \* this.maxSize
    ttl,            \* this.ttl
    cache,          \* this.cache: the Map's entries in the Map's own order
    now,            \* the value Date.now() returned last
    \* history of the run
    lastCall,       \* the last call made on the cache and what it returned
    setLog,         \* the set() calls so far, in order
    expired,        \* whether some get() found an entry expired and deleted it
    hits,           \* hits[k]: the get(k) calls that returned the value of the
                    \* entry now stored for k (0 when none is stored)
    \* ImageCache.createKey: two parameter objects and the keys made of them
    structs,        \* structs[i]: the i-th object, its members in the order
                    \* they were written
    keys,           \* keys[i]: what createKey(structs[i]) returned, <<>>
                    \* before the call
    \* option validation: the options a caller generates an image with
    genOptions,     \* the options object given to generateImage / validate
    generated,      \* <<>>, or <<outcome>> of JaguarFluxAPI.generateImage
    tsErrors,       \* <<>>, or <<errors>> returned by the TypeScript
                    \* validateGenerationOptions
    \* JaguarFluxAPI.makeRequest: one call on one client
    retryOption,    \* options.retryAttempts given to the constructor: <<>>
                    \* when absent, <<n>> when the number n
    retryAttempts,  \* this.retryAttempts
    call,           \* the call: its position (pc), the locals attempt and
                    \* lastError, the fetches settled and the delays
                    \* started so far, and how it settled
    \* generateImage of the React hook and of the React component
    variant,        \* "hook" (useJaguarImageGeneration) or "component"
                    \* (JaguarImageGenerator)
    calls,          \* calls[c]: where the c-th call of generateImage is
    loading,        \* the state `loading`
    error,          \* the state `error`: <<>> for null, <<message>>
    result          \* the state `result`: <<>> for null, <<c>> for the data
                    \* call c received

qvars == <<maxConcurrent, running, queue, st, outcome, promise, settleCalls,
           addedBy, addOrder, startOrder, peak, freed>>

cvars == <<options, maxSize, ttl, cache, now, lastCall, setLog, expired,
           hits>>

kvars == <<structs, keys>>

\* What the pure functions of the client are applied to.
gvars == <<genOptions, generated, tsErrors>>

rvars == <<retryOption, retryAttempts, call>>

lvars == <<variant, calls, loading, error, result>>

pvars == <<kvars, gvars, rvars, lvars>>

vars == <<qvars, cvars, pvars>>

\* ------------------------------------------------------- RequestQueue
Max(a, b) == IF a >= b THEN a ELSE b

\* The state process() reads and writes, as one record, so that the nested
\* synchronous calls of one job can be composed.  While a job runs, the record
\* also lists the invocations of process() the job has made so far.
QState ==
    [running |-> running, queue |-> queue, st |-> st, outcome |-> outcome,
     promise |-> promise, settleCalls |-> settleCalls, addedBy |-> addedBy,
     addOrder |-> addOrder, startOrder |-> startOrder,
     peak |-> running, freed |-> <<>>, invocations |-> <<>>]

\* process(): `if (this.running >= this.maxConcurrent || this.queue.length === 0) return;`
GuardOffByOne(s) ==
    ~(s.running > maxConcurrent \/ Len(s.queue) = 0)

CanStart(s) ==
    ~(s.running >= maxConcurrent \/ Len(s.queue) = 0)

\* process(): `this.queue.shift()`: the entry taken and the entries left.
ShiftTakesLast(q) ==
    [entry |-> q[Len(q)], rest |-> SubSeq(q, 1, Len(q) - 1)]

Shift(q) ==
    [entry |-> Head(q), rest |-> Tail(q)]

\* resolve(v) / reject(e) of the promise add() created for entry e: the first
\* call settles it, later calls change nothing.
Settle(s, e, how, v) ==
    [s EXCEPT !.settleCalls[e] = @ + 1,
              !.promise[e] = IF @.state = "pending"
                             THEN [state |-> how, value |-> v] ELSE @,
              !.st[e] = "done"]

\* process(): `resolve(result)` after the await.
OnResult(s, e) ==
    Settle(s, e, "resolved", e)

\* process(): `catch (error) { reject(error); }`
CatchRetriesOnce(s, e) ==
    IF Cardinality({i \in 1..Len(s.startOrder) : s.startOrder[i] = e}) = 1
    THEN [s EXCEPT !.queue = Append(@, e), !.st[e] = "pending"]
    ELSE Settle(s, e, "rejected", e)

CatchSwallows(s, e) ==
    Settle(s, e, "resolved", 0)

OnError(s, e) ==
    Settle(s, e, "rejected", e)

\* process(): `finally { this.running--; ... }`
ReleaseKeepsSlot(s) ==
    s

Release(s) ==
    [s EXCEPT !.running = @ - 1]

\* Operations are named by their place in the order of submission: the
\* operation the next add() call submits, if the bound leaves one.
Fresh(s) == {o \in Ops : o = Len(s.addOrder) + 1}

\* What one invocation of process() found on entry and left when it reached
\* its return or its await: `invoked` is <<>> or <<the entry it invoked>>.
Invocation(s, invoked, after) ==
    [running |-> s.running, queue |-> s.queue, invoked |-> invoked,
     runningAfter |-> after.running, queueAfter |-> after.queue]

\* A requestFunction is the caller's code: what it does when invoked is not
\* known to the queue.  Process, AddTo and Finally therefore give the set of
\* states one synchronous run can end in.
RECURSIVE Process(_)
RECURSIVE AddTo(_, _, _)
RECURSIVE Finally(_, _, _)

\* add(): push the entry, then process().  `by` is the operation whose
\* requestFunction makes the call, 0 when the application makes it.
AddTo(s, o, by) ==
    UNION {Process(n) : n \in {[s EXCEPT !.queue = Append(@, o),
                                         !.st[o] = "pending",
                                         !.addedBy[o] = by,
                                         !.addOrder = Append(@, o)]}}

\* process(): the finally block, entered after entry e settled.
FinallySkipsProcess(s, e, failed) ==
    {Release([s EXCEPT !.freed = Append(@,
               [op |-> e, failed |-> failed,
                head |-> IF Len(s.queue) = 0 THEN 0 ELSE Head(s.queue)])])}

Finally(s, e, failed) ==
    UNION {Process(Release(n)) : n \in {[s EXCEPT !.freed = Append(@,
               [op |-> e, failed |-> failed,
                head |-> IF Len(s.queue) = 0 THEN 0 ELSE Head(s.queue)])]}}

\* process(), up to its await: the guard, running++, shift, and the
\* synchronous part of requestFunction(): it may call add() for a further
\* operation, and then it either returns (process() awaits the value) or
\* throws (process() goes through catch and finally at once).
Process(s) ==
    IF ~CanStart(s)
    THEN {[s EXCEPT !.invocations = Append(@, Invocation(s, <<>>, s))]}
    ELSE UNION {UNION {UNION {
           {s2} \cup
           Finally(OnError([s2 EXCEPT !.outcome[sh.entry] = "threw"], sh.entry),
                   sh.entry, TRUE)
           : s2 \in {s1} \cup UNION {AddTo(s1, c, sh.entry) : c \in Fresh(s1)}}
           : s1 \in {[s EXCEPT !.running = @ + 1,
                               !.peak = Max(@, s.running + 1),
                               !.queue = sh.rest,
                               !.st[sh.entry] = "running",
                               !.startOrder = Append(@, sh.entry),
                               !.invocations = Append(@,
                                   Invocation(s, <<sh.entry>>,
                                       [running |-> s.running + 1,
                                        queue |-> sh.rest]))]}}
           : sh \in {Shift(s.queue)}}

\* The job leaves the queue in state r.
Becomes(r) ==
    /\ running' = r.running
    /\ queue' = r.queue
    /\ st' = r.st
    /\ outcome' = r.outcome
    /\ promise' = r.promise
    /\ settleCalls' = r.settleCalls
    /\ addedBy' = r.addedBy
    /\ addOrder' = r.addOrder
    /\ startOrder' = r.startOrder
    /\ peak' = r.peak
    /\ freed' = r.freed

\* The application calls queue.add(requestFunction).
Add(o) ==
    /\ o \in Fresh(QState)
    /\ \E s \in {QState} : \E r \in AddTo(s, o, 0) : Becomes(r)
    /\ UNCHANGED <<maxConcurrent, cvars, pvars>>

\* Somebody calls queue.process() directly, while other calls are awaiting.
ProcessCall ==
    /\ \E s \in {QState} : \E r \in Process(s) : Becomes(r)
    /\ UNCHANGED <<maxConcurrent, cvars, pvars>>

\* The promise requestFunction o returned is fulfilled.
OpFulfils(o) ==
    /\ st[o] = "running"
    /\ st' = [st EXCEPT ![o] = "returned"]
    /\ outcome' = [outcome EXCEPT ![o] = "ok"]
    /\ peak' = running
    /\ freed' = <<>>
    /\ UNCHANGED <<maxConcurrent, running, queue, promise, settleCalls,
                   addedBy, addOrder, startOrder, cvars, pvars>>

\* The promise requestFunction o returned is rejected.
OpRejects(o) ==
    /\ st[o] = "running"
    /\ st' = [st EXCEPT ![o] = "returned"]
    /\ outcome' = [outcome EXCEPT ![o] = "err"]
    /\ peak' = running
    /\ freed' = <<>>
    /\ UNCHANGED <<maxConcurrent, running, queue, promise, settleCalls,
                   addedBy, addOrder, startOrder, cvars, pvars>>

\* process() resumes after `await requestFunction()`.
Resumed(s, o) ==
    IF s.outcome[o] = "ok"
    THEN Finally(OnResult(s, o), o, FALSE)
    ELSE Finally(OnError(s, o), o, TRUE)

Resume(o) ==
    /\ st[o] = "returned"
    /\ \E s \in {QState} : \E r \in Resumed(s, o) : Becomes(r)
    /\ UNCHANGED <<maxConcurrent, cvars, pvars>>

QInit ==
    /\ maxConcurrent \in 1..MaxConcurrentBound
    /\ running = 0
    /\ queue = <<>>
    /\ st = [o \in Ops |-> "new"]
    /\ outcome = [o \in Ops |-> "none"]
    /\ promise = [o \in Ops |-> [state |-> "pending", value |-> 0]]
    /\ settleCalls = [o \in Ops |-> 0]
    /\ addedBy = [o \in Ops |-> 0]
    /\ addOrder = <<>>
    /\ startOrder = <<>>
    /\ peak = 0
    /\ freed = <<>>

QNext ==
    \/ \E o \in Ops : Add(o)
    \/ ProcessCall
    \/ \E o \in Ops : OpFulfils(o)
    \/ \E o \in Ops : OpRejects(o)
    \/ \E o \in Ops : Resume(o)

\* ---------------------------------------------------------- ImageCache
\* A property of the constructor's argument is <<>> when it is not given
\* (undefined) and <<n>> when it is given as the number n.  The caller gives
\* no options, or gives both.
Options ==
    {[maxSize |-> <<>>, ttl |-> <<>>]} \cup
    {[maxSize |-> <<m>>, ttl |-> <<l>>] : m \in 0..(NumKeys - 1),
                                          l \in 0..(MaxTime - 1)}

\* `a || b` on an optional number: undefined and 0 are falsy.
OrDefault(opt, default) ==
    IF opt = <<>> \/ opt[1] = 0 THEN default ELSE opt[1]

\* constructor: `options.maxSize || 100`, `options.ttl || 3600000`
DefaultMaxSize == 100
DefaultTtl == 3600000

Keys == 1..NumKeys

\* get(): `return null`.  The values stored are the numbers from 1.
Null == 0

\* Map.prototype.get: <<>> for undefined, <<entry>> for the entry found.
MapGet(m, key) ==
    IF \E i \in 1..Len(m) : m[i].key = key
    THEN <<m[CHOOSE i \in 1..Len(m) : m[i].key = key]>>
    ELSE <<>>

\* Map.prototype.set: an existing key keeps its place in the Map's order, a
\* new key goes to the end.
MapSet(m, entry) ==
    IF \E i \in 1..Len(m) : m[i].key = entry.key
    THEN [i \in 1..Len(m) |-> IF m[i].key = entry.key THEN entry ELSE m[i]]
    ELSE Append(m, entry)

\* Map.prototype.delete
MapDeleteClears(m, key) ==
    <<>>

MapDelete(m, key) ==
    SelectSeq(m, LAMBDA e : e.key # key)

\* The comparator of cleanup(): `a[1].timestamp - b[1].timestamp`.
CompareNewestFirst(a, b) ==
    b.timestamp - a.timestamp

Compare(a, b) ==
    a.timestamp - b.timestamp

\* Array.prototype.sort with that comparator.  The sort is stable: entries
\* that compare equal keep the order they had in the array.
InsertSorted(front, e) ==
    LET n == Cardinality({i \in 1..Len(front) : Compare(front[i], e) <= 0})
    IN  SubSeq(front, 1, n) \o <<e>> \o SubSeq(front, n + 1, Len(front))

RECURSIVE Sort(_)
Sort(s) ==
    IF s = <<>> THEN <<>>
    ELSE CHOOSE sorted \in {InsertSorted(front, s[Len(s)])
                            : front \in {Sort(SubSeq(s, 1, Len(s) - 1))}} : TRUE

\* Array.prototype.slice(0, n)
SliceFromEnd(s, n) ==
    SubSeq(s, Len(s) - (IF n > Len(s) THEN Len(s) ELSE n) + 1, Len(s))

Slice0(s, n) ==
    SubSeq(s, 1, IF n > Len(s) THEN Len(s) ELSE n)

\* cleanup()
Cleanup(m) ==
    IF Len(m) <= maxSize THEN m
    ELSE LET entries  == Sort(m)
             toRemove == Slice0(entries, Len(m) - maxSize)
             gone     == {toRemove[i].key : i \in 1..Len(toRemove)}
         IN  SelectSeq(m, LAMBDA e : e.key \notin gone)

\* get(): `Date.now() - entry.timestamp > this.ttl`, Date.now() returning t.
ExpiredAtTtl(entry, t) ==
    t - entry.timestamp >= ttl

Expired(entry, t) ==
    t - entry.timestamp > ttl

StoredKeys(m) == {m[i].key : i \in 1..Len(m)}

\* The successful reads counted by the entries now stored.
RECURSIVE Reads(_)
Reads(m) ==
    IF m = <<>> THEN 0 ELSE (m[1].accessCount - 1) + Reads(Tail(m))

\* Keys are named in the order of their first insertion: the keys set() has
\* been called with, and the key a caller may come with next.
Known == {setLog[i].key : i \in 1..Len(setLog)} \cup
         {k \in Keys : k = 1 + Cardinality({setLog[i].key : i \in 1..Len(setLog)})}

\* set(key, value), Date.now() returning t.  The n-th call of set() stores
\* the value n.
SetAt(key, t) ==
    /\ Len(setLog) < MaxSets
    /\ \E inserted \in {MapSet(cache, [key |-> key,
                                        value |-> Len(setLog) + 1,
                                        timestamp |-> t,
                                        accessCount |-> 1])} :
         /\ cache' = Cleanup(inserted)
         /\ setLog' = Append(setLog,
                [key |-> key, before |-> StoredKeys(cache),
                 evicted |-> StoredKeys(inserted) \ StoredKeys(cache'),
                 evictedAt |-> {inserted[i].timestamp : i \in
                     {j \in 1..Len(inserted) :
                         inserted[j].key \notin StoredKeys(cache')}}])
         /\ hits' = [k \in Keys |->
                        IF k = key \/ k \notin StoredKeys(cache')
                        THEN 0 ELSE hits[k]]
    /\ now' = t
    /\ lastCall' = [op |-> "set", key |-> key]
    /\ UNCHANGED <<options, maxSize, ttl, expired, qvars, pvars>>

\* get(): `entry.accessCount++`
TouchRefreshes(entry) ==
    [entry EXCEPT !.accessCount = @ + 1, !.timestamp = @ + 1]

TouchLeavesCount(entry) ==
    entry

Touch(entry) ==
    [entry EXCEPT !.accessCount = @ + 1]

\* get(key), Date.now() returning t.
GetAt(key, t) ==
    /\ \E found \in {MapGet(cache, key)} :
         IF found = <<>>
         THEN /\ lastCall' = [op |-> "get", key |-> key, entry |-> found,
                              returned |-> Null]
              /\ UNCHANGED <<cache, expired, hits>>
         ELSE IF Expired(found[1], t)
         THEN /\ cache' = MapDelete(cache, key)
              /\ expired' = TRUE
              /\ hits' = [hits EXCEPT ![key] = 0]
              /\ lastCall' = [op |-> "get", key |-> key, entry |-> found,
                              returned |-> Null]
         ELSE /\ Reads(cache) < MaxReads
              /\ cache' = MapSet(cache, Touch(found[1]))
              /\ hits' = [hits EXCEPT ![key] = @ + 1]
              /\ lastCall' = [op |-> "get", key |-> key, entry |-> found,
                              returned |-> found[1].value]
              /\ UNCHANGED expired
    /\ now' = t
    /\ UNCHANGED <<options, maxSize, ttl, setLog, qvars, pvars>>

\* The calls of an application whose clock does not go back: Date.now()
\* returns at least what it returned to the call before.  Time is counted
\* from the first set(): only differences of clock readings are ever used.
Readings == IF setLog = <<>> THEN {now} ELSE now..MaxTime

Set(key) == \E t \in Readings : SetAt(key, t)

Get(key) == \E t \in Readings : GetAt(key, t)

\* new ImageCache(options)
CInit ==
    /\ options \in Options
    /\ maxSize = OrDefault(options.maxSize, DefaultMaxSize)
    /\ ttl = OrDefault(options.ttl, DefaultTtl)
    /\ cache = <<>>
    /\ now = 0
    /\ lastCall = [op |-> "new"]
    /\ setLog = <<>>
    /\ expired = FALSE
    /\ hits = [k \in Keys |-> 0]

CNext ==
    \/ \E key \in Known : Set(key)
    \/ \E key \in Known : Get(key)

\* The calls of an application whose clock may be set back between calls
\* (Date.now() is the system's wall clock): any reading may follow any other.
SetSkewed(key) == \E t \in 0..MaxTime : SetAt(key, t)

GetSkewed(key) == \E t \in 0..MaxTime : GetAt(key, t)

CSkewNext ==
    \/ \E key \in Known : SetSkewed(key)
    \/ \E key \in Known : GetSkewed(key)

\* ------------------------------------------------ ImageCache.createKey
\* The parameter objects callers make keys of: members written in some
\* order, no field written twice.  An object is the sequence of its
\* <<field, value>> members in the order JavaScript enumerates them, which for
\* these field names is the order they were written in.
Fields == {"prompt", "width", "seed"}
Values == {"a", "b"}

RECURSIVE ObjectsOf(_)
ObjectsOf(n) ==
    IF n = 0 THEN {<<>>}
    ELSE UNION {{obj} \cup
                {Append(obj, <<f, v>>) :
                    f \in {g \in Fields : \A i \in 1..Len(obj) : obj[i][1] # g},
                    v \in Values}
                : obj \in ObjectsOf(n - 1)}

Objects == ObjectsOf(MaxFields)

\* JSON.stringify of an object whose values are strings, as the sequence of
\* the pieces of the text: the members in enumeration order, separated by
\* commas, each as "field":"value".
RECURSIVE Members(_)
Members(obj) ==
    IF obj = <<>> THEN <<>>
    ELSE <<"\"", obj[1][1], "\"", ":", "\"", obj[1][2], "\"">>
         \o (IF Len(obj) = 1 THEN <<>> ELSE <<",">> \o Members(Tail(obj)))

JsonStringify(obj) ==
    <<"{">> \o Members(obj) \o <<"}">>

\* createKey(options): `return JSON.stringify(options);`
createKey(obj) ==
    JsonStringify(obj)

\* A caller computes the key of its i-th object.
CreateKey(i) ==
    /\ keys[i] = <<>>
    /\ keys' = [keys EXCEPT ![i] = createKey(structs[i])]
    /\ UNCHANGED <<structs, qvars, cvars, gvars, rvars, lvars>>

KInit ==
    /\ structs \in Objects \X Objects
    /\ keys = <<<<>>, <<>>>>

KNext ==
    \E i \in 1..2 : CreateKey(i)

\* ---------------------------------------------------- option validation
\* Numbers are counted in tenths, so that 3.5 and 0.9 can be written: 1280
\* stands for 128 and 35 for 3.5.  A string is the sequence of its characters.
\* An optional property is <<>> when it is not given and <<v>> when it is.
Tenths(n) == 10 * n

Prompts == {<<>>, <<" ">>, <<"a">>, <<" ", "a">>}

\* The values a caller may give: around both ends of each range, 0 and a
\* negative number.
Sizes == {Tenths(-1), 0, Tenths(127), Tenths(128), Tenths(2048), Tenths(2049)}
Scales == {Tenths(-1), 0, 9, Tenths(1), Tenths(20), 201}
StepCounts == {Tenths(-1), 0, Tenths(1), Tenths(50), Tenths(51)}
SeqLengths == {0, Tenths(512), Tenths(513)}

Optional(S) == {<<>>} \cup {<<v>> : v \in S}

GenerationOptions ==
    [prompt : Optional(Prompts), height : Optional(Sizes),
     width : Optional({0, Tenths(128), Tenths(2049)}),
     guidance_scale : Optional(Scales), steps : Optional(StepCounts),
     max_seq_length : Optional(SeqLengths)]

\* JavaScript truthiness of an optional number (undefined and 0 are falsy)
\* and of an optional string (undefined and the empty string are falsy).
Truthy(opt) == opt # <<>> /\ opt[1] # 0
TruthyString(opt) == opt # <<>> /\ opt[1] # <<>>

\* String.prototype.trim
RECURSIVE TrimStart(_)
TrimStart(s) ==
    IF s # <<>> /\ Head(s) = " " THEN TrimStart(Tail(s)) ELSE s

RECURSIVE TrimEnd(_)
TrimEnd(s) ==
    IF s # <<>> /\ s[Len(s)] = " " THEN TrimEnd(SubSeq(s, 1, Len(s) - 1)) ELSE s

Trim(s) == TrimEnd(TrimStart(s))

\* PARAMETER_LIMITS (jaguar-api-types.ts); JaguarFluxAPI.js writes the same
\* numbers in its conditions.
PARAMETER_LIMITS ==
    [height |-> [min |-> Tenths(128), max |-> Tenths(2048)],
     width |-> [min |-> Tenths(128), max |-> Tenths(2048)],
     guidance_scale |-> [min |-> Tenths(1), max |-> Tenths(20)],
     steps |-> [min |-> Tenths(1), max |-> Tenths(50)],
     max_seq_length |-> [min |-> Tenths(1), max |-> Tenths(512)]]

\* `options.f && (options.f < min || options.f > max)`
Rejected(opt, limits) ==
    Truthy(opt) /\ (opt[1] < limits.min \/ opt[1] > limits.max)

\* `!options.prompt || options.prompt.trim().length === 0`
PromptMissing(o) ==
    ~TruthyString(o.prompt) \/ Len(Trim(o.prompt[1])) = 0

Push(cond, message) == IF cond THEN <<message>> ELSE <<>>

\* JaguarFluxAPI.validateGenerationOptions: the errors it collects; it throws
\* when there is one.
validateGenerationOptions(o) ==
    Push(PromptMissing(o), "Prompt is required and cannot be empty")
    \o Push(Rejected(o.height, PARAMETER_LIMITS.height),
            "Height must be between 128 and 2048")
    \o Push(Rejected(o.width, PARAMETER_LIMITS.width),
            "Width must be between 128 and 2048")
    \o Push(Rejected(o.guidance_scale, PARAMETER_LIMITS.guidance_scale),
            "Guidance scale must be between 1.0 and 20.0")
    \o Push(Rejected(o.steps, PARAMETER_LIMITS.steps),
            "Steps must be between 1 and 50")

\* validateGenerationOptions of jaguar-api-types.ts: the errors it returns.
validateGenerationOptionsTs(o) ==
    Push(PromptMissing(o), "Prompt is required and cannot be empty")
    \o Push(Rejected(o.height, PARAMETER_LIMITS.height),
            "Height must be between 128 and 2048")
    \o Push(Rejected(o.width, PARAMETER_LIMITS.width),
            "Width must be between 128 and 2048")
    \o Push(Rejected(o.guidance_scale, PARAMETER_LIMITS.guidance_scale),
            "Guidance scale must be between 1 and 20")
    \o Push(Rejected(o.steps, PARAMETER_LIMITS.steps),
            "Steps must be between 1 and 50")
    \o Push(Rejected(o.max_seq_length, PARAMETER_LIMITS.max_seq_length),
            "Max sequence length must be between 1 and 512")

\* this.defaults of a client constructed without options.defaults.
defaults ==
    [height |-> Tenths(1024), width |-> Tenths(1024), guidance_scale |-> 35,
     steps |-> Tenths(4), max_seq_length |-> Tenths(256)]

\* Number.prototype.toString for the numbers used here: the decimal digits
\* of the whole part, a sign for a negative number, and ".d" when there is
\* a tenth.
Digit(d) ==
    CASE d = 0 -> "0" [] d = 1 -> "1" [] d = 2 -> "2" [] d = 3 -> "3"
      [] d = 4 -> "4" [] d = 5 -> "5" [] d = 6 -> "6" [] d = 7 -> "7"
      [] d = 8 -> "8" [] d = 9 -> "9"

RECURSIVE Whole(_)
Whole(n) ==
    IF n < 10 THEN <<Digit(n)>> ELSE Append(Whole(n \div 10), Digit(n % 10))

toString(x) ==
    LET a == IF x < 0 THEN 0 - x ELSE x
    IN  (IF x < 0 THEN <<"-">> ELSE <<>>)
        \o Whole(a \div 10)
        \o (IF a % 10 = 0 THEN <<>> ELSE <<".", Digit(a % 10)>>)

\* `options.f || this.defaults.f`
OrElse(opt, default) == IF Truthy(opt) THEN opt[1] ELSE default

\* generateImage: the query parameters of the request it makes.
Params(o) ==
    [height |-> toString(OrElse(o.height, defaults.height)),
     width |-> toString(OrElse(o.width, defaults.width)),
     guidance_scale |->
        toString(OrElse(o.guidance_scale, defaults.guidance_scale)),
     steps |-> toString(OrElse(o.steps, defaults.steps)),
     max_seq_length |->
        toString(OrElse(o.max_seq_length, defaults.max_seq_length))]

\* JaguarFluxAPI.generateImage(options): validation throws, or the request
\* is made with the parameters built from the options.
GenerateImage ==
    /\ generated = <<>>
    /\ \E errors \in {validateGenerationOptions(genOptions)} :
         generated' = <<[errors |-> errors,
                         request |-> IF errors = <<>>
                                     THEN <<Params(genOptions)>> ELSE <<>>]>>
    /\ UNCHANGED <<genOptions, tsErrors, qvars, cvars, kvars, rvars, lvars>>

\* A caller of the TypeScript module validates the options.
ValidateTs ==
    /\ tsErrors = <<>>
    /\ tsErrors' = <<validateGenerationOptionsTs(genOptions)>>
    /\ UNCHANGED <<genOptions, generated, qvars, cvars, kvars, rvars, lvars>>

GInit ==
    /\ genOptions \in GenerationOptions
    /\ generated = <<>>
    /\ tsErrors = <<>>

GNext ==
    \/ GenerateImage
    \/ ValidateTs

\* ------------------------------------------- JaguarFluxAPI.makeRequest
\* One call of makeRequest(url, options) on a client.  A job of the call is
\* what it runs between two awaits: from the call to the first fetch, from
\* the settlement of a fetch to the next await or to the end, and from the
\* end of a delay to the next fetch or to the end.  A response arrives with
\* the outcome of reading its body.

\* constructor: `this.retryAttempts = options.retryAttempts || 1`
RetryOptions == {<<>>} \cup {<<n>> : n \in 0..MaxRetries}

DefaultRetryAttempts == 1

\* `await this.delay(5000)` after a 503, `1000 * (attempt + 1)` after a
\* failed attempt
ColdStartDelay == 5000
BackoffUnit == 1000

\* The status codes the code names, and one it does not.
ServiceUnavailable == 503
RequestTimeout == 408
BadRequest == 400
Ok == 200

\* class JaguarAPIError extends Error
JaguarAPIError(message, statusCode) ==
    [name |-> "JaguarAPIError", message |-> message, statusCode |-> statusCode]

\* What fetch() resolves with: an OK response whose body parses or does
\* not, or a response that is not OK, whose body does not parse, parses to
\* an object without an error member, or to one with it.
Responses ==
    {[ok |-> TRUE, status |-> Ok, body |-> b] : b \in {"json", "unparsable"}}
    \cup
    {[ok |-> FALSE, status |-> s, body |-> b] :
        s \in {BadRequest, ServiceUnavailable},
        b \in {"unparsable", "plain", "error"}}

\* What fetch() rejects with: the abort of the timeout's controller, or a
\* network failure.
Rejections ==
    {[name |-> "AbortError", message |-> <<"This operation was aborted">>,
      statusCode |-> Null],
     [name |-> "TypeError", message |-> <<"fetch failed">>,
      statusCode |-> Null]}

\* What response.json() rejects with on a body that is not JSON.
SyntaxError ==
    [name |-> "SyntaxError", message |-> <<"Unexpected token">>,
     statusCode |-> Null]

\* The call before it is made.
NotCalled ==
    [pc |-> "idle", attempt |-> 0, lastError |-> <<>>, fetched |-> <<>>,
     delays |-> <<>>, settled |-> <<>>]

\* `throw err` out of makeRequest: the returned promise is rejected.  thrown
\* is <<>> for undefined and <<e>> for the error e.
Throw(r, thrown) ==
    [r EXCEPT !.pc = "done",
              !.settled = <<[how |-> "threw", value |-> thrown]>>]

\* `return await response.json()`
Return(r, response) ==
    [r EXCEPT !.pc = "done",
              !.settled = <<[how |-> "returned",
                             value |-> <<[body |-> response.body]>>]>>]

\* `for (...; attempt <= this.retryAttempts; ...)` with attempt = n, then
\* the body up to `await fetch(...)`; after the loop, `throw lastError`.
Iterate(r, n) ==
    IF n <= retryAttempts
    THEN [r EXCEPT !.attempt = n, !.pc = "fetching"]
    ELSE Throw([r EXCEPT !.attempt = n], r.lastError)

\* `await this.delay(ms)`
Delay(r, ms, after) ==
    [r EXCEPT !.pc = "delaying",
              !.delays = Append(@, [ms |-> ms, attempt |-> r.attempt,
                                    after |-> after])]

\* `error.name === 'AbortError'`
AbortIsRetried(err) == FALSE

IsAbort(err) ==
    err.name = "AbortError"

\* `catch (error) { ... }`: a timeout is thrown on, anything else waits and
\* goes round again while attempts remain, or leaves the catch block.
Catch(r, err) ==
    IF IsAbort(err)
    THEN Throw([r EXCEPT !.lastError = <<err>>],
               <<JaguarAPIError(<<"Request timeout">>, RequestTimeout)>>)
    ELSE IF r.attempt < retryAttempts
         THEN Delay([r EXCEPT !.lastError = <<err>>],
                    BackoffUnit * (r.attempt + 1), "error")
         ELSE Iterate([r EXCEPT !.lastError = <<err>>], r.attempt + 1)

\* `errorData.error || errorMessage`, errorMessage being
\* `HTTP error! status: ${response.status}`
ErrorMessage(response) ==
    IF response.body = "error"
    THEN <<"the error member of the body">>
    ELSE <<"HTTP error! status: ", response.status>>

\* `response.status === 503 && attempt < this.retryAttempts`
NeverColdStart(r, response) == FALSE

ColdStart(r, response) ==
    response.status = ServiceUnavailable /\ r.attempt < retryAttempts

\* The try block after `await fetch(...)` has resolved.  The throw of a
\* response that is not OK, and the rejection of response.json(), happen
\* inside the try block and are caught by the catch block of the method.
Respond(r, response) ==
    IF ~response.ok
    THEN IF ColdStart(r, response)
         THEN Delay(r, ColdStartDelay, "503")
         ELSE Catch(r, JaguarAPIError(ErrorMessage(response), response.status))
    ELSE IF response.body = "json"
         THEN Return(r, response)
         ELSE Catch(r, SyntaxError)

\* The fetch of this attempt has settled: with a response of this status,
\* or with an error of this name.
Fetched(r, status, name) ==
    [r EXCEPT !.fetched = Append(@, [attempt |-> r.attempt,
                                     status |-> status, name |-> name])]

\* makeRequest(url, options) is called.
MakeRequest ==
    /\ call.pc = "idle"
    /\ call' = Iterate(call, 0)
    /\ UNCHANGED <<retryOption, retryAttempts, qvars, cvars, kvars, gvars, lvars>>

\* The fetch resolves with a response.
FetchResolves(response) ==
    /\ call.pc = "fetching"
    /\ call' = Respond(Fetched(call, response.status, ""), response)
    /\ UNCHANGED <<retryOption, retryAttempts, qvars, cvars, kvars, gvars, lvars>>

\* The fetch rejects: the timeout aborted it, or the network failed.
FetchRejects(err) ==
    /\ call.pc = "fetching"
    /\ call' = Catch(Fetched(call, Null, err.name), err)
    /\ UNCHANGED <<retryOption, retryAttempts, qvars, cvars, kvars, gvars, lvars>>

\* The delay is over: `continue`, that is `attempt++` and the loop test.
DelayElapses ==
    /\ call.pc = "delaying"
    /\ call' = Iterate(call, call.attempt + 1)
    /\ UNCHANGED <<retryOption, retryAttempts, qvars, cvars, kvars, gvars, lvars>>

\* new JaguarFluxAPI(baseUrl, options)
RInit ==
    /\ retryOption \in RetryOptions
    /\ retryAttempts = OrDefault(retryOption, DefaultRetryAttempts)
    /\ call = NotCalled

RNext ==
    \/ MakeRequest
    \/ \E response \in Responses : FetchResolves(response)
    \/ \E err \in Rejections : FetchRejects(err)
    \/ DelayElapses

\* ------------------------------------- generateImage of the React layer
\* The generateImage callback of the hook useJaguarImageGeneration and of the
\* component JaguarImageGenerator.  Both keep `loading`, `error` and `result`
\* as React state; a call runs up to its first await in the job that makes
\* it, and its remainder (the rest of the try block, the catch block and the
\* finally block) in the job that follows the settlement of its request.
\* State updates made in one job are applied together, the last one to a
\* state winning.

\* The hook returns early without a prompt; the component throws the
\* validation errors inside its try block.
Begin(c, input) ==
    IF input = "valid"
    THEN \* setLoading(true); setError(null); ... await fetch(url)
         /\ loading' = TRUE
         /\ error' = <<>>
         /\ calls' = Append(calls, "fetching")
    ELSE IF variant = "hook"
         THEN \* setError('Prompt is required'); return;
              /\ error' = <<"Prompt is required">>
              /\ calls' = Append(calls, "returned")
              /\ UNCHANGED loading
         ELSE \* setLoading(true); setError(null); throw; catch: setError;
              \* finally: setLoading(false)
              /\ loading' = FALSE
              /\ error' = <<"validation errors">>
              /\ calls' = Append(calls, "rejected")

\* The component calls generateImage from its form only, whose controls are
\* `disabled={loading}`; the hook hands generateImage to its caller, who may
\* call it at any time.
CanCall == variant = "component" => ~loading

\* generateImage(options) is called, in the hook also while earlier calls
\* are in flight.
StartGeneration(input) ==
    /\ Len(calls) < NumCalls
    /\ CanCall
    /\ Begin(Len(calls) + 1, input)
    /\ UNCHANGED <<variant, result, qvars, cvars, kvars, gvars, rvars>>

\* The request of call c succeeded: setResult(data); return data; finally
\* setLoading(false).
GenerationSucceeds(c) ==
    /\ calls[c] = "fetching"
    /\ result' = <<c>>
    /\ loading' = FALSE
    /\ calls' = [calls EXCEPT ![c] = "fulfilled"]
    /\ UNCHANGED <<variant, error, qvars, cvars, kvars, gvars, rvars>>

\* The request of call c failed: setError(message); throw err; finally
\* setLoading(false).
GenerationFails(c) ==
    /\ calls[c] = "fetching"
    /\ error' = <<"HTTP error">>
    /\ loading' = FALSE
    /\ calls' = [calls EXCEPT ![c] = "rejected"]
    /\ UNCHANGED <<variant, result, qvars, cvars, kvars, gvars, rvars>>

\* The hook or the component is mounted: useState(false), useState(null).
LInit ==
    /\ variant \in {"hook", "component"}
    /\ calls = <<>>
    /\ loading = FALSE
    /\ error = <<>>
    /\ result = <<>>

LNext ==
    \/ \E input \in {"valid", "invalid"} : StartGeneration(input)
    \/ \E c \in 1..Len(calls) : GenerationSucceeds(c)
    \/ \E c \in 1..Len(calls) : GenerationFails(c)

\* ------------------------------------------------------- specifications
\* Each specification runs one component; the others are constructed and
\* left alone.  The value a component is left with is stated before its
\* initial condition, which then only has to accept it.
NoOptions ==
    [prompt |-> <<>>, height |-> <<>>, width |-> <<>>,
     guidance_scale |-> <<>>, steps |-> <<>>, max_seq_length |-> <<>>]

\* No pure function is applied: there is nothing to apply one to.
RIdle ==
    /\ retryOption = <<>>
    /\ RInit

LIdle ==
    /\ variant = "hook"
    /\ LInit

PIdle ==
    /\ structs = <<<<>>, <<>>>>
    /\ KInit
    /\ genOptions = NoOptions
    /\ GInit
    /\ RIdle
    /\ LIdle

\* A queue is constructed and no operation is submitted to it.
QIdle ==
    /\ maxConcurrent = 1
    /\ QInit

\* A cache is constructed and no call is made on it.
CIdle ==
    /\ options = [maxSize |-> <<>>, ttl |-> <<>>]
    /\ CInit

\* The queue alone.
QueueInit ==
    /\ QInit
    /\ CIdle
    /\ PIdle

QueueSpec == QueueInit /\ [][QNext]_vars

\* Every started operation eventually settles, and the job queue runs every
\* continuation that is ready.
QueueLiveSpec ==
    /\ QueueSpec
    /\ WF_vars(\E o \in Ops : OpFulfils(o) \/ OpRejects(o))
    /\ WF_vars(\E o \in Ops : Resume(o))

\* The cache alone, with a clock that does not go back.
CacheInit ==
    /\ CInit
    /\ QIdle
    /\ PIdle

CacheSpec == CacheInit /\ [][CNext]_vars

\* The cache alone, with a clock that may be set back.
CacheSkewSpec == CacheInit /\ [][CSkewNext]_vars

\* createKey alone, applied to every pair of parameter objects.
KeyInit ==
    /\ KInit
    /\ QIdle
    /\ CIdle
    /\ genOptions = NoOptions
    /\ GInit
    /\ RIdle
    /\ LIdle

KeySpec == KeyInit /\ [][KNext]_vars

\* Option validation alone, applied to every options object.
ValidationInit ==
    /\ GInit
    /\ structs = <<<<>>, <<>>>>
    /\ KInit
    /\ QIdle
    /\ CIdle
    /\ RIdle
    /\ LIdle

ValidationSpec == ValidationInit /\ [][GNext]_vars

\* makeRequest alone.
RequestInit ==
    /\ RInit
    /\ QIdle
    /\ CIdle
    /\ structs = <<<<>>, <<>>>>
    /\ KInit
    /\ genOptions = NoOptions
    /\ GInit
    /\ LIdle

RequestSpec == RequestInit /\ [][RNext]_vars

\* The call is made, every fetch settles or is aborted by the timeout, and
\* every delay ends.
RequestLiveSpec ==
    /\ RequestSpec
    /\ WF_vars(MakeRequest)
    /\ WF_vars(\E response \in Responses : FetchResolves(response))
    /\ WF_vars(\E err \in Rejections : FetchRejects(err))
    /\ WF_vars(DelayElapses)

\* The React layer alone.
LoadingInit ==
    /\ LInit
    /\ QIdle
    /\ CIdle
    /\ structs = <<<<>>, <<>>>>
    /\ KInit
    /\ genOptions = NoOptions
    /\ GInit
    /\ RIdle

LoadingSpec == LoadingInit /\ [][LNext]_vars

\* ------------------------------------------------ RequestQueue: claims
Range(s) == {s[i] : i \in 1..Len(s)}

\* Operations whose requestFunction was invoked and whose settlement
\* process() has not handled yet; those still executing are InFlight.
Started == {o \in Ops : st[o] \in {"running", "returned"}}
InFlight == {o \in Ops : st[o] = "running"}
Failed(o) == outcome[o] \in {"err", "threw"}

\* C1: for every maxConcurrent >= 1, after any sequence of add() calls and
\* settlements (re-entrant add() and overlapping process() calls included),
\* the number of operations started and not yet settled never exceeds
\* maxConcurrent, neither between jobs nor at any point inside one.
C1_BoundedConcurrency ==
    /\ Cardinality(InFlight) <= maxConcurrent
    /\ Cardinality(Started) <= maxConcurrent
    /\ running <= maxConcurrent
    /\ peak <= maxConcurrent

\* C1 witness: every slot is taken, an operation waits, and the waiting
\* operation was submitted re-entrantly by a requestFunction being invoked.
C1_Witness ==
    /\ Cardinality(InFlight) = maxConcurrent
    /\ \E o \in Ops : /\ st[o] = "pending"
                      /\ addedBy[o] # 0
                      /\ st[addedBy[o]] = "running"

\* C2: operations are started in strict submission order: the operations
\* invoked so far are, in order, the first ones submitted, and the pending
\* list holds exactly the submitted operations not yet started, in
\* submission order.
C2_StartInSubmissionOrder ==
    /\ Len(startOrder) <= Len(addOrder)
    /\ startOrder = SubSeq(addOrder, 1, Len(startOrder))
    /\ queue = SubSeq(addOrder, Len(startOrder) + 1, Len(addOrder))

\* C2 witness: with one slot, three operations o1, o2, o3 were submitted
\* before the first one settled, and they were started one after the other.
C2_Witness ==
    /\ maxConcurrent = 1
    /\ Len(startOrder) >= 3
    /\ freed # <<>>
    /\ freed[1].head = 3
    /\ st[1] = "done"
    /\ st[2] = "done"

\* C3: the promise add(op) returned settles exactly once and with op's own
\* outcome: resolved with op's result when op succeeds, rejected with op's
\* error when op fails (asynchronously or by a synchronous throw); it is
\* untouched until then, whatever happens to other operations, and the
\* queue's counter stays consistent (no error state).
C3_OwnOutcome ==
    /\ \A o \in Ops :
         IF st[o] = "done"
         THEN /\ settleCalls[o] = 1
              /\ promise[o] = [state |-> IF Failed(o) THEN "rejected"
                                         ELSE "resolved",
                               value |-> o]
         ELSE /\ settleCalls[o] = 0
              /\ promise[o] = [state |-> "pending", value |-> 0]
    /\ running = Cardinality(Started)

\* C3 witness: one operation threw synchronously, one failed asynchronously,
\* and a third one resolved after both failures.
C3_Witness ==
    \E a, b, c \in Ops :
        /\ outcome[a] = "threw" /\ promise[a].state = "rejected"
        /\ outcome[b] = "err" /\ promise[b].state = "rejected"
        /\ promise[c].state = "resolved"
        /\ startOrder = <<a, b, c>>

\* C4: when a running operation fails while the pending list is non-empty,
\* its slot is freed and the head of the pending list is started in the same
\* step; after a step with a failure no slot is idle while an operation
\* waits.
C4_FailureFreesSlot ==
    /\ \A i \in 1..Len(freed) :
         (freed[i].failed /\ freed[i].head # 0)
            => /\ st[freed[i].head] # "pending"
               /\ freed[i].head \in Range(startOrder)
    /\ ((\E i \in 1..Len(freed) : freed[i].failed) /\ queue # <<>>)
            => running = maxConcurrent

\* C4 witness: with two slots, an operation failed asynchronously while
\* another waited, and the waiting one is now running next to the other.
C4_Witness ==
    /\ maxConcurrent = 2
    /\ Len(freed) = 1
    /\ freed[1].failed
    /\ freed[1].head # 0
    /\ outcome[freed[1].op] = "err"
    /\ st[freed[1].head] = "running"
    /\ running = 2

\* C5: if every started operation eventually settles, every submitted
\* operation is eventually started and its promise settled, and the queue
\* comes back to an empty pending list with running = 0.
C5_Drains ==
    <>[](/\ \A o \in Ops :
             st[o] # "new" => (st[o] = "done" /\ promise[o].state # "pending")
         /\ queue = <<>>
         /\ running = 0)

\* C5 witness: every operation was submitted, at least one failed, and the
\* queue is drained.
C5_Witness ==
    /\ Len(addOrder) = NumOps
    /\ \A o \in Ops : st[o] = "done"
    /\ \E o \in Ops : promise[o].state = "rejected"
    /\ queue = <<>>
    /\ running = 0

\* The entries the invocations of process() logged in s invoked, in order.
RECURSIVE Invoked(_)
Invoked(s) ==
    IF s = <<>> THEN <<>> ELSE s[1].invoked \o Invoked(Tail(s))

\* The runs of the jobs that can come next: a call of process(), a call of
\* add() by the application, the continuation of a process() whose
\* operation has returned.
Jobs ==
    UNION {Process(s)
           \cup UNION {AddTo(s, o, 0) : o \in Fresh(s)}
           \cup UNION {Resumed(s, o) : o \in {p \in Ops : s.st[p] = "returned"}}
           : s \in {QState}}

\* C17: each invocation of process() either leaves running and the pending
\* list unchanged (when running >= maxConcurrent or the list is empty) or
\* removes exactly the head entry, increments running by exactly one and
\* invokes exactly that entry's operation; the operations a job starts are
\* those its invocations invoked, one each at most.
C17_OneStartPerInvocation ==
    \A r \in Jobs :
       /\ \A i \in 1..Len(r.invocations) :
            LET v == r.invocations[i]
            IN  IF v.running >= maxConcurrent \/ v.queue = <<>>
                THEN /\ v.invoked = <<>>
                     /\ v.runningAfter = v.running
                     /\ v.queueAfter = v.queue
                ELSE /\ v.invoked = <<Head(v.queue)>>
                     /\ v.runningAfter = v.running + 1
                     /\ v.queueAfter = Tail(v.queue)
       /\ r.startOrder = startOrder \o Invoked(r.invocations)

\* C17 witness: a job in which an invocation of process() starts the head
\* and leaves another entry waiting, and a further invocation finds every
\* slot taken and returns with the list non-empty.
C17_Witness ==
    \E r \in Jobs : \E i, j \in 1..Len(r.invocations) :
        /\ r.invocations[i].invoked # <<>>
        /\ r.invocations[i].queueAfter # <<>>
        /\ r.invocations[j].invoked = <<>>
        /\ r.invocations[j].queue # <<>>
        /\ r.invocations[j].running >= maxConcurrent

\* C18: every submitted operation is invoked at most once and never again
\* after a failure: no operation is both in the pending list and started,
\* and a started operation is never in the pending list again.
C18_InvokedAtMostOnce ==
    /\ Cardinality(Range(startOrder)) = Len(startOrder)
    /\ Cardinality(Range(queue)) = Len(queue)
    /\ Range(queue) \cap Range(startOrder) = {}
    /\ \A o \in Ops : Failed(o) => o \notin Range(queue)

\* C18 witness: an operation failed and was settled, a later one was started
\* after it, and another still waits.
C18_Witness ==
    \E o \in Ops :
        /\ Failed(o)
        /\ st[o] = "done"
        /\ Len(startOrder) >= 2
        /\ startOrder[1] = o
        /\ queue # <<>>

\* The started operations whose promise (the one add() returned) is pending.
Unsettled == {o \in Range(startOrder) : promise[o].state = "pending"}
AllSettled == \A o \in Range(addOrder) : promise[o].state # "pending"

\* running is the number of operations started and not yet settled, it is
\* never negative, and it is 0 with an empty pending list once every
\* submitted operation has settled.
RunningIsCount ==
    /\ running = Cardinality(Unsettled)
    /\ running >= 0
    /\ AllSettled => (running = 0 /\ queue = <<>>)

\* C19: the running counter always equals the number of operations started
\* and not yet settled; it is never negative, it goes down only in a step
\* that settles a started operation, and once all submitted operations have
\* settled (after any number of failures) it is 0 with an empty pending
\* list, and the next submission is started at once as on a fresh queue.
C19_RunningCounter ==
    /\ RunningIsCount
    /\ [][/\ RunningIsCount'
          /\ running' < running =>
                \E o \in Unsettled : promise'[o].state # "pending"
          /\ (AllSettled /\ Len(addOrder') > Len(addOrder)) =>
                addOrder'[Len(addOrder) + 1] \in Range(startOrder')
         ]_vars

\* C19 witness: the first operation threw when it was invoked, which left
\* the queue idle; the application submitted the second one afterwards,
\* and it was started at once.
C19_Witness ==
    /\ outcome[1] = "threw"
    /\ promise[1].state = "rejected"
    /\ addedBy[2] = 0
    /\ startOrder = <<1, 2>>
    /\ st[2] = "running"
    /\ running = 1

\* C20: between jobs, if the pending list is non-empty then running equals
\* maxConcurrent: no slot is idle while an operation waits.
C20_WorkConserving ==
    queue # <<>> => running = maxConcurrent

\* C20 witness: with two slots, a settlement freed a slot while two
\* operations waited; the first of them was started and the other waits.
C20_Witness ==
    /\ maxConcurrent = 2
    /\ freed # <<>>
    /\ freed[1].head # 0
    /\ st[freed[1].head] = "running"
    /\ queue # <<>>
    /\ running = 2

\* ---------------------------------------------------- ImageCache: claims
Min(a, b) == IF a <= b THEN a ELSE b

LogKeys == {setLog[i].key : i \in 1..Len(setLog)}

\* The set() calls before the n-th one that were made with key k, and the
\* last of them.
SetsOf(k, n) == {i \in 1..(n - 1) : setLog[i].key = k}
LastSetOf(k, n) == CHOOSE i \in SetsOf(k, n) : \A j \in SetsOf(k, n) : j <= i

\* The last call was a set(), and its cleanup() evicted entries.
Overflowed ==
    /\ lastCall.op = "set"
    /\ setLog[Len(setLog)].evicted # {}

\* C6: for any configured maxSize, the number of stored entries is at most
\* the configured maxSize in every state reached after a set() returns.
C6_SizeWithinConfigured ==
    options.maxSize # <<>> => Len(cache) <= options.maxSize[1]

\* C7: get(key) for an entry stored at time T returns the stored value when
\* the current time minus T is at most ttl (exactly ttl included) and
\* returns absent when it is greater, however many entries are stored.
C7_TtlBoundary ==
    (lastCall.op = "get" /\ lastCall.entry # <<>>)
        => lastCall.returned =
              (IF now - lastCall.entry[1].timestamp <= ttl
               THEN lastCall.entry[1].value ELSE Null)

\* C7 witness: a get() made exactly ttl after the entry was stored returned
\* its value, another entry being stored too.
C7_Witness ==
    /\ lastCall.op = "get"
    /\ lastCall.entry # <<>>
    /\ now - lastCall.entry[1].timestamp = ttl
    /\ lastCall.returned = lastCall.entry[1].value
    /\ lastCall.returned # Null
    /\ Len(cache) >= 2

\* C8: after inserting a sequence of distinct keys (no entry having been
\* deleted for expiry), exactly the maxSize most recently inserted keys are
\* stored, also when insertions share a timestamp.
C8_KeepsNewest ==
    (Cardinality(LogKeys) = Len(setLog) /\ ~expired)
        => StoredKeys(cache) =
             {setLog[i].key :
                i \in (Len(setLog) - Min(maxSize, Len(setLog)) + 1)..Len(setLog)}

\* C8 witness: maxSize = 2; the keys 1, 2, 3 were inserted in order, all at
\* the same clock reading, and exactly 2 and 3 are stored.
C8_Witness ==
    /\ maxSize = 2
    /\ Len(setLog) = 3
    /\ Cardinality(LogKeys) = 3
    /\ setLog[3].evicted = {1}
    /\ setLog[3].evictedAt = {now}
    /\ StoredKeys(cache) = {2, 3}
    /\ \A i \in 1..Len(cache) : cache[i].timestamp = now

\* C9: set() on a key that is already stored resets the entry's timestamp
\* and access counter and moves it to the newest eviction position: when a
\* later overflow evicts it, every other key that was stored at the time of
\* the re-insertion (and was not set again since) has been evicted already,
\* also when the re-insertion happened at the clock reading of the others.
C9_ReinsertedIsNewest ==
    /\ (lastCall.op = "set" /\ lastCall.key \in setLog[Len(setLog)].before)
          => \E i \in 1..Len(cache) :
                /\ cache[i].key = lastCall.key
                /\ cache[i].timestamp = now
                /\ cache[i].accessCount = 1
    /\ Overflowed =>
         \A j \in setLog[Len(setLog)].evicted :
            LET n == Len(setLog)
                i == LastSetOf(j, n)
            IN  j \in setLog[i].before =>
                  \A k \in setLog[i].before \ {j} :
                     (\A m \in (i + 1)..n : setLog[m].key # k)
                        => k \notin StoredKeys(cache)

\* The n-th set() inserted a key that was not stored and that an earlier
\* set() had evicted for capacity.
Reinserted(k, n) ==
    /\ n \in 1..Len(setLog)
    /\ setLog[n].key = k
    /\ k \notin setLog[n].before
    /\ \E i \in 1..(n - 1) : k \in setLog[i].evicted

\* The last set() is the first one to overflow since the n-th.
NextOverflowSince(n) ==
    /\ Overflowed
    /\ \A m \in n..(Len(setLog) - 1) : setLog[m].evicted = {}

SurvivorSince(n) ==
    \E o \in setLog[n].before :
        /\ n = Len(setLog) \/ o \in setLog[Len(setLog)].before
        /\ \A m \in (n + 1)..Len(setLog) : setLog[m].key # o

C11_ZeroSizeStoresNothing ==
    options.maxSize = <<0>>
        => /\ cache = <<>>
           /\ lastCall.op = "get" => lastCall.returned = Null

\* C12: with a configured time-to-live of 0, a get(key) that follows a
\* set(key, v) returns absent and removes the entry.
C12_ZeroTtlExpiresOnRead ==
    (options.ttl = <<0>> /\ lastCall.op = "get" /\ lastCall.entry # <<>>)
        => /\ lastCall.returned = Null
           /\ lastCall.key \notin StoredKeys(cache)

\* C14: the access counter of every stored entry equals 1 plus the number of
\* get() calls on its key that returned its value since the most recent
\* set() of that key; set() stores the current timestamp with count 1.
C14_AccessCount ==
    /\ \A i \in 1..Len(cache) : cache[i].accessCount = 1 + hits[cache[i].key]
    /\ lastCall.op = "set" =>
         \A i \in 1..Len(cache) :
            cache[i].key = lastCall.key =>
               cache[i].timestamp = now /\ cache[i].accessCount = 1

\* C14 witness: a get() has just returned the value of an entry, whose
\* counter is 2, while another entry, never read, has counter 1.
C14_Witness ==
    /\ lastCall.op = "get"
    /\ lastCall.returned # Null
    /\ \E i, j \in 1..Len(cache) :
          /\ cache[i].key = lastCall.key
          /\ cache[i].accessCount = 2
          /\ lastCall.entry[1].accessCount = 1
          /\ cache[j].accessCount = 1

\* The step is a call of get(), or of set().
IsGet == lastCall'.op = "get" /\ setLog' = setLog
IsSet == setLog' # setLog

\* C15: entries are removed only by a get() on the same key that finds it
\* expired, or by capacity eviction during a set() that brings the count
\* above the maximum: a get() on an absent or unexpired key removes nothing,
\* a get() on an expired key removes only that key, and a set() that stays
\* within capacity removes no entry, even if other entries are expired.
C15_RemovalFrame ==
    [][/\ IsGet =>
            StoredKeys(cache') =
               (IF lastCall'.entry # <<>>
                   /\ now' - lastCall'.entry[1].timestamp > ttl
                THEN StoredKeys(cache) \ {lastCall'.key}
                ELSE StoredKeys(cache))
       /\ IsSet =>
            IF Cardinality(StoredKeys(cache) \cup {lastCall'.key}) <= maxSize
            THEN StoredKeys(cache') = StoredKeys(cache) \cup {lastCall'.key}
            ELSE /\ StoredKeys(cache') \subseteq
                       StoredKeys(cache) \cup {lastCall'.key}
                 /\ Cardinality(StoredKeys(cache')) = maxSize
      ]_vars

\* C15 witness: a set() that stayed within capacity has returned, and an
\* entry of another key, expired at that time, is still stored.
C15_Witness ==
    /\ lastCall.op = "set"
    /\ setLog[Len(setLog)].evicted = {}
    /\ \E i \in 1..Len(cache) :
          /\ cache[i].key # lastCall.key
          /\ Expired(cache[i], now)

\* C21: with maxSize >= 1, set(key, v) immediately followed by get(key) at a
\* time no more than ttl later returns v: the eviction a set() triggers never
\* evicts the entry that set() has just inserted, whatever the clock does
\* (equal or decreasing readings between insertions included).
C21_SetThenGet ==
    [][(/\ lastCall.op = "set"
        /\ IsGet
        /\ lastCall'.key = lastCall.key
        /\ now' - now <= ttl)
          => lastCall'.returned = Len(setLog)
      ]_vars

\* C22: capacity eviction never removes an unexpired entry while keeping an
\* expired one: after a set(), if some remaining entry is expired at the
\* time of the set(), every entry that set() evicted was expired at that time.
C22_EvictsExpiredFirst ==
    (lastCall.op = "set" /\ \E i \in 1..Len(cache) : Expired(cache[i], now))
        => \A stamp \in setLog[Len(setLog)].evictedAt : now - stamp > ttl

\* C22 witness: a set() evicted an entry that was expired at that time, and
\* an expired entry remains next to the entry just inserted.
C22_Witness ==
    /\ lastCall.op = "set"
    /\ setLog[Len(setLog)].evicted # {}
    /\ \A stamp \in setLog[Len(setLog)].evictedAt : now - stamp > ttl
    /\ \E i, j \in 1..Len(cache) :
          /\ Expired(cache[i], now)
          /\ cache[j].key = lastCall.key
          /\ ~Expired(cache[j], now)

\* An entry without its access counter.
Uncounted(entry) ==
    [key |-> entry.key, value |-> entry.value, timestamp |-> entry.timestamp]

\* The keys in the order cleanup() would evict them.
EvictionOrder(m) ==
    CHOOSE order \in {[i \in 1..Len(m) |-> sorted[i].key] : sorted \in {Sort(m)}} :
        TRUE

Pairs(obj) == {obj[i] : i \in 1..Len(obj)}

\* C13: createKey applied to two structurally equal parameter objects (the
\* same set of field/value pairs, in whatever order the fields were written)
\* yields identical key strings.
C13_EqualStructsEqualKeys ==
    (keys[1] # <<>> /\ keys[2] # <<>> /\ Pairs(structs[1]) = Pairs(structs[2]))
        => keys[1] = keys[2]

\* ------------------------------------------------ option validation: claims
\* The option was provided and its value is outside the documented range.
OutOfRange(opt, limits) ==
    opt # <<>> /\ (opt[1] < limits.min \/ opt[1] > limits.max)

Reports(errors, message) == \E i \in 1..Len(errors) : errors[i] = message

\* The request carries the caller's value for the option.
Carries(text, opt) == opt # <<>> /\ text = toString(opt[1])

\* C16: validation reports an error whenever a provided height or width is
\* outside 128..2048, steps outside 1..50 or guidance_scale outside 1.0..20.0,
\* for every numeric value including 0, in the JavaScript method and in the
\* TypeScript function, so that no generateImage request carries an
\* out-of-range value supplied by the caller.
C16_RejectsOutOfRange ==
    /\ generated # <<>> =>
         LET errors == generated[1].errors
             request == generated[1].request
         IN  /\ OutOfRange(genOptions.height, PARAMETER_LIMITS.height)
                  => Reports(errors, "Height must be between 128 and 2048")
             /\ OutOfRange(genOptions.width, PARAMETER_LIMITS.width)
                  => Reports(errors, "Width must be between 128 and 2048")
             /\ OutOfRange(genOptions.steps, PARAMETER_LIMITS.steps)
                  => Reports(errors, "Steps must be between 1 and 50")
             /\ OutOfRange(genOptions.guidance_scale,
                           PARAMETER_LIMITS.guidance_scale)
                  => Reports(errors,
                             "Guidance scale must be between 1.0 and 20.0")
             /\ request # <<>> =>
                  \A f \in {"height", "width", "steps", "guidance_scale"} :
                     ~(/\ OutOfRange(genOptions[f], PARAMETER_LIMITS[f])
                       /\ Carries(request[1][f], genOptions[f]))
    /\ tsErrors # <<>> =>
         /\ OutOfRange(genOptions.height, PARAMETER_LIMITS.height)
              => Reports(tsErrors[1], "Height must be between 128 and 2048")
         /\ OutOfRange(genOptions.width, PARAMETER_LIMITS.width)
              => Reports(tsErrors[1], "Width must be between 128 and 2048")
         /\ OutOfRange(genOptions.steps, PARAMETER_LIMITS.steps)
              => Reports(tsErrors[1], "Steps must be between 1 and 50")
         /\ OutOfRange(genOptions.guidance_scale,
                       PARAMETER_LIMITS.guidance_scale)
              => Reports(tsErrors[1],
                         "Guidance scale must be between 1 and 20")

\* ------------------------------------- JaguarFluxAPI.makeRequest: claims
\* The fetches the call has started.
Fetches ==
    Len(call.fetched) + (IF call.pc = "fetching" THEN 1 ELSE 0)

\* The retry attempts the client was configured with: the option, or the
\* documented default when the option is absent.
Configured ==
    IF retryOption = <<>> THEN DefaultRetryAttempts ELSE retryOption[1]

Done == call.pc = "done"

\* The call threw a JaguarAPIError with this status code.
ThrewStatus(statusCode) ==
    /\ Done
    /\ call.settled[1].how = "threw"
    /\ call.settled[1].value # <<>>
    /\ call.settled[1].value[1].name = "JaguarAPIError"
    /\ call.settled[1].value[1].statusCode = statusCode

\* A delay was started after the fetch of this attempt.
DelayedAfter(n) ==
    \E i \in 1..Len(call.delays) : call.delays[i].attempt = n

\* C24: every call of makeRequest terminates, provided each fetch settles or
\* is aborted by the timeout: it makes at most retryAttempts + 1 fetches and
\* then returns the parsed body of an OK response or throws.
C24_TerminatesWithinAttempts ==
    /\ [](Fetches <= Configured + 1)
    /\ [](Done => \/ call.settled[1].how = "threw"
                  \/ /\ call.settled[1].how = "returned"
                     /\ call.settled[1].value = <<[body |-> "json"]>>
                     /\ call.fetched[Len(call.fetched)].status = Ok)
    /\ (call.pc # "idle" ~> Done)

\* C25: a 503 response received while attempts remain is retried after a
\* delay of 5000 ms instead of being thrown, and when the last allowed
\* attempt also receives 503 the call throws a JaguarAPIError whose
\* statusCode is 503.
C25_ColdStartRetried ==
    \A i \in 1..Len(call.fetched) :
        call.fetched[i].status = ServiceUnavailable =>
            IF call.fetched[i].attempt < retryAttempts
            THEN /\ \E j \in 1..Len(call.delays) :
                       call.delays[j] = [ms |-> ColdStartDelay,
                                         attempt |-> call.fetched[i].attempt,
                                         after |-> "503"]
                 /\ Done => call.attempt > call.fetched[i].attempt
            ELSE /\ i = Len(call.fetched)
                 /\ ThrewStatus(ServiceUnavailable)

\* C25 witness: every attempt received 503, the first ones were retried and
\* the last one was thrown.
C25_Witness ==
    /\ Len(call.fetched) = retryAttempts + 1
    /\ retryAttempts >= 2
    /\ \A i \in 1..Len(call.fetched) :
          call.fetched[i].status = ServiceUnavailable
    /\ Len(call.delays) = retryAttempts
    /\ ThrewStatus(ServiceUnavailable)

\* C26: a request aborted by the timeout is never retried: on the first
\* attempt that is aborted the call throws a JaguarAPIError with message
\* 'Request timeout' and statusCode 408 and makes no further fetch, whatever
\* the number of remaining attempts.
C26_TimeoutNotRetried ==
    \A i \in 1..Len(call.fetched) :
        call.fetched[i].name = "AbortError" =>
            /\ i = Len(call.fetched)
            /\ Fetches = i
            /\ ~DelayedAfter(call.fetched[i].attempt)
            /\ ThrewStatus(RequestTimeout)
            /\ call.settled[1].value[1].message = <<"Request timeout">>

\* C26 witness: the second attempt was aborted while two more remained.
C26_Witness ==
    /\ retryAttempts = 3
    /\ Len(call.fetched) = 2
    /\ call.fetched[1].name = "TypeError"
    /\ call.fetched[2].name = "AbortError"
    /\ ThrewStatus(RequestTimeout)

RECURSIVE Backoff(_)
Backoff(delays) ==
    IF delays = <<>> THEN <<>>
    ELSE IF delays[1].after = "error"
         THEN <<delays[1].ms>> \o Backoff(Tail(delays))
         ELSE Backoff(Tail(delays))

\* C28: the delay before a retry after a failed attempt follows exponential
\* backoff: each delay is a constant multiple, greater than 1, of the one
\* before it, for every number of configured retry attempts.
C28_ExponentialBackoff ==
    \A d \in {Backoff(call.delays)} :
        /\ \A k \in 1..(Len(d) - 1) : d[k + 1] > d[k]
        /\ \A k \in 1..(Len(d) - 2) : d[k + 2] * d[k] = d[k + 1] * d[k + 1]

\* ------------------------------------ generateImage of the React layer: claims
\* The calls that have started their request and have not settled.
Pending == {c \in 1..Len(calls) : calls[c] = "fetching"}

\* C29: loading is true in every state in which at least one generateImage
\* call has been started and has not yet settled, also when two calls
\* overlap, and it is false once every started call has settled.
C29_LoadingWhilePending ==
    loading = (Pending # {})

====
